---------------------------- MODULE Spec2Model ----------------------------
(***************************************************************************)
(* Rabin-Williams signatures (src/src/keys.rs, src/src/utils.rs,           *)
(* src/src/hash.rs): key generation, deterministic signing, verification,  *)
(* the blind-signature exchange, the signature wire format and the modular *)
(* arithmetic underneath them.                                             *)
(*                                                                         *)
(* Big integers are unbounded in the program; here they are TLC integers   *)
(* and every specification keeps its inputs small enough that no product   *)
(* leaves the 32-bit range.  Results of fallible operations are records    *)
(* [ok, val, err]; a Rust panic is the error kind "panic".                 *)
(***************************************************************************)
EXTENDS Integers, Sequences, FiniteSets, TLC

VARIABLES
    \* --- signing / verification / blinding session (keys.rs) ---
    pc,        \* position of the session
    p, q,      \* PrivateKey.p, PrivateKey.q
    n,         \* PublicKey.n
    m,         \* hash_fn.hash(message) of the session's message
    r,         \* blinding factor returned by blind_message
    blinded,   \* blinded value handed to the signer
    bsig,      \* result of raw_sign on the blinded value
    sig,       \* result of sign / unblind_signature (possibly tampered)
    verdict,   \* result of verify
    via,       \* how sig was obtained: "sign", "tamper", "blind"
    flipped,   \* index of the flag-byte bit flipped by the tamperer, or -1
    \* --- key generation (keys.rs, generate_with_hash) ---
    gpc,       \* position of generate_with_hash / generate_prime_congruent
    bits,      \* requested key size
    target,    \* remainder searched for (3 for p, 7 for q)
    round,     \* iterations of `for _ in 0..1000` completed
    candidate, \* the candidate the last round's scan ended on
    steps,     \* `candidate += 1` steps the last round's scan took
    gp, gq,    \* primes found so far (0: none)
    gres,      \* result of generate_with_hash
    \* --- pure-function harnesses (utils.rs, wire format) ---
    fpc,       \* position of the harness
    arg,       \* the call's arguments
    ret,       \* the call's result
    frame      \* local variables of a call in progress (mod_sqrt)

sessVars == <<pc, p, q, n, m, r, blinded, bsig, sig, verdict, via, flipped>>
genVars  == <<gpc, bits, target, round, candidate, steps, gp, gq, gres>>
funVars  == <<fpc, arg, ret, frame>>
vars     == <<sessVars, genVars, funVars>>

----------------------------------------------------------------------------
(* Result values *)

Ok(v)  == [ok |-> TRUE,  val |-> v,    err |-> "none"]
Err(e) == [ok |-> FALSE, val |-> <<>>, err |-> e]
Panic  == Err("panic")
Unset  == Err("unset")

None    == [some |-> FALSE, val |-> 0]
Some(x) == [some |-> TRUE,  val |-> x]

----------------------------------------------------------------------------
(* Big-integer, byte and primality capabilities the program consumes *)

RECURSIVE Gcd(_, _)
Gcd(a, b) == IF b = 0 THEN a ELSE Gcd(b, a % b)

IsPrime(k) == k > 1 /\ \A d \in 2..(k - 1) : d * d > k \/ k % d # 0

RECURSIVE Pow2(_)
Pow2(k) == IF k <= 0 THEN 1 ELSE 2 * Pow2(k - 1)

\* BigUint::modpow: base^exp mod modulus (modulus # 0 at every call site)
RECURSIVE ModPow(_, _, _)
ModPow(a, e, md) ==
    IF e = 0 THEN 1 % md
    ELSE LET h == ModPow(a, e \div 2, md)
             s == (h * h) % md
         IN  IF e % 2 = 0 THEN s ELSE (s * (a % md)) % md

\* u8 bitwise and / xor
RECURSIVE BitAnd(_, _)
BitAnd(a, b) ==
    IF a = 0 \/ b = 0 THEN 0
    ELSE (a % 2) * (b % 2) + 2 * BitAnd(a \div 2, b \div 2)

RECURSIVE BitXor(_, _)
BitXor(a, b) ==
    IF a = 0 THEN b ELSE IF b = 0 THEN a
    ELSE ((a + b) % 2) + 2 * BitXor(a \div 2, b \div 2)

\* BigUint::to_bytes_be: minimal big-endian bytes, the single byte 0 for zero
RECURSIVE Digits256(_)
Digits256(x) == IF x = 0 THEN <<>> ELSE Append(Digits256(x \div 256), x % 256)

\* mutant: no byte at all for zero
to_bytes_be_empty_zero(x) == Digits256(x)

to_bytes_be(x) == IF x = 0 THEN <<0>> ELSE Digits256(x)

\* BigUint::from_bytes_be: left fold, leading zero bytes carry no value
RECURSIVE FoldBytes(_, _)
FoldBytes(acc, s) ==
    IF s = <<>> THEN acc ELSE FoldBytes(acc * 256 + Head(s), Tail(s))

from_bytes_be(s) == FoldBytes(0, s)

----------------------------------------------------------------------------
(* utils.rs *)

\* mutant: Euler's criterion with the exponent p - 1 (Fermat's test)
is_quadratic_residue_fermat(a, pr) ==
    IF pr = 0 \/ pr = 1 THEN FALSE
    ELSE ModPow(a, pr - 1, pr) = 1

is_quadratic_residue(a, pr) ==
    IF pr = 0 \/ pr = 1 THEN FALSE
    ELSE ModPow(a, (pr - 1) \div 2, pr) = 1

\* the loop of mod_inverse: returns <<t, r>> when newr reaches zero
RECURSIVE InverseLoop(_, _, _, _)
InverseLoop(t, newt, rr, newr) ==
    IF newr = 0 THEN <<t, rr>>
    ELSE LET quotient == rr \div newr
         IN  InverseLoop(newt, t - quotient * newt, newr, rr - quotient * newr)

\* mutant: a negative Bezout coefficient negated instead of lifted by m
mod_inverse_negated(a, md) ==
    IF md = 0 THEN None
    ELSE LET fin == InverseLoop(0, 1, md, a)
             t   == fin[1]
             rr  == fin[2]
         IN  IF rr > 1 THEN None
             ELSE IF t < 0 THEN Some(-t) ELSE Some(t)

mod_inverse(a, md) ==
    IF md = 0 THEN None
    ELSE LET fin == InverseLoop(0, 1, md, a)
             t   == fin[1]
             rr  == fin[2]
         IN  IF rr > 1 THEN None
             ELSE IF t < 0 THEN Some(t + md) ELSE Some(t)

RECURSIVE Product(_)
Product(s) == IF s = <<>> THEN 1 ELSE Head(s) * Product(Tail(s))

\* the body of `for i in 0..remainders.len()` from index i on (1-based here)
RECURSIVE CrtLoop(_, _, _, _, _)
CrtLoop(remainders, moduli, prod, i, sum) ==
    IF i > Len(remainders) THEN Ok(sum)
    ELSE IF moduli[i] = 0 THEN Panic              \* &prod / moduli[i]
    ELSE LET pp  == prod \div moduli[i]
             inv == mod_inverse(pp, moduli[i])
         IN  IF ~inv.some THEN Err("ComputationError")
             ELSE IF prod = 0 THEN Panic          \* ... % &prod
             ELSE LET term == ((((remainders[i] * pp) % prod) * inv.val) % prod) % prod
                  IN  CrtLoop(remainders, moduli, prod, i + 1, (sum + term) % prod)

chinese_remainder_theorem(remainders, moduli) ==
    IF Len(remainders) # Len(moduli) \/ Len(remainders) = 0
    THEN Err("ComputationError")
    ELSE CrtLoop(remainders, moduli, Product(moduli), 1, 0)

\* mutant: the doubled candidates carry each other's sign
qr_candidates_mistagged(a, nn) ==
    << [cand |-> a,                   e |-> 1,  f |-> 1],
       [cand |-> nn - a,              e |-> -1, f |-> 1],
       [cand |-> (a * 2) % nn,        e |-> -1, f |-> 2],
       [cand |-> ((nn - a) * 2) % nn, e |-> 1,  f |-> 2] >>

\* the candidates array of make_quadratic_residue, in order (a <= n here)
qr_candidates(a, nn) ==
    << [cand |-> a,                   e |-> 1,  f |-> 1],
       [cand |-> nn - a,              e |-> -1, f |-> 1],
       [cand |-> (a * 2) % nn,        e |-> 1,  f |-> 2],
       [cand |-> ((nn - a) * 2) % nn, e |-> -1, f |-> 2] >>

qr_passes(c, pp, qq) ==
    is_quadratic_residue(c.cand, pp) /\ is_quadratic_residue(c.cand, qq)

make_quadratic_residue(a, pp, qq) ==
    LET nn == pp * qq
    IN  IF a > nn THEN Panic                      \* n - a underflows BigUint
        ELSE LET cs   == qr_candidates(a, nn)
                 hits == {i \in 1..4 : qr_passes(cs[i], pp, qq)}
             IN  IF hits = {} THEN Panic          \* panic!("No quadratic residue ...")
                 ELSE LET first == CHOOSE i \in hits : \A j \in hits : i <= j
                      IN  Ok(cs[first])

----------------------------------------------------------------------------
(* keys.rs: wire format *)

FlagMask == 252

pack_signature(e, f, x) ==
    LET first_byte == (IF e = -1 THEN 1 ELSE 0) + 2 * (IF f = 2 THEN 1 ELSE 0)
    IN  <<first_byte>> \o to_bytes_be(x)

\* mutant: extract_signature without its minimum-length check
extract_signature_no_length(signature) ==
    IF signature = <<>> THEN Err("InvalidSignature")
    ELSE LET first_byte == signature[1]
         IN  IF BitAnd(first_byte, FlagMask) # 0 THEN Err("InvalidSignature")
             ELSE Ok([e |-> IF BitAnd(first_byte, 1) = 0 THEN 1 ELSE -1,
                      f |-> IF BitAnd(first_byte, 2) = 0 THEN 1 ELSE 2,
                      x |-> from_bytes_be(Tail(signature))])

extract_signature(signature) ==
    IF signature = <<>> THEN Err("InvalidSignature")
    ELSE LET first_byte == signature[1]
         IN  IF BitAnd(first_byte, FlagMask) # 0 THEN Err("InvalidSignature")
             ELSE IF Len(signature) < 2 THEN Err("InvalidSignature")
             ELSE Ok([e |-> IF BitAnd(first_byte, 1) = 0 THEN 1 ELSE -1,
                      f |-> IF BitAnd(first_byte, 2) = 0 THEN 1 ELSE 2,
                      x |-> from_bytes_be(Tail(signature))])

----------------------------------------------------------------------------
(* keys.rs: signing, verification, blinding *)

\* mutant: the exponent taken as (p - 1) / 4
sqrt_exponent_low(pr) == (pr - 1) \div 4

\* exponent of the closed-form square root modulo a prime = 3 (mod 4)
sqrt_exponent(pr) == (pr + 1) \div 4

raw_sign(message, pp, qq) ==
    LET mm == from_bytes_be(message)
        mk == make_quadratic_residue(mm, pp, qq)
    IN  IF ~mk.ok THEN mk
        ELSE LET v  == mk.val.cand
                 sp == ModPow(v % pp, sqrt_exponent(pp), pp)
                 sq == ModPow(v % qq, sqrt_exponent(qq), qq)
                 signature == chinese_remainder_theorem(<<sp, sq>>, <<pp, qq>>)
             IN  IF ~signature.ok THEN signature
                 ELSE Ok(pack_signature(mk.val.e, mk.val.f, signature.val))

\* hash is the integer hash_fn.hash(message)
sign(hash, pp, qq) == raw_sign(to_bytes_be(hash), pp, qq)

two_inv(nn) == (nn + 1) \div 2

\* the match of verify: undo the transform named by (e, f)
verify_undo(e, f, x_squared, nn) ==
    IF e = 1 /\ f = 1 THEN x_squared
    ELSE IF e = 1 /\ f = 2 THEN (x_squared * two_inv(nn)) % nn
    ELSE IF e = -1 /\ f = 1 THEN (nn - x_squared) % nn
    ELSE ((nn - x_squared) * two_inv(nn)) % nn

verify(hash, signature, nn) ==
    LET ex == extract_signature(signature)
    IN  IF ~ex.ok THEN ex
        ELSE LET x_squared == (ex.val.x * ex.val.x) % nn
             IN  Ok(verify_undo(ex.val.e, ex.val.f, x_squared, nn) = hash)

\* the values PublicKey::coprime can return
Coprimes(nn) == {e \in 1..(nn - 1) : Gcd(e, nn) = 1}

\* mutant: the message masked by r instead of r^2
blind_value_unsquared(hash, rr, nn) == (rr * hash) % nn

\* blind_message with the blinding factor rr drawn by blinding()
blind_value(hash, rr, nn) ==
    LET r_squared == (rr * rr) % nn
    IN  (r_squared * hash) % nn

unblind_x(r_inv, x, nn) == (r_inv * x) % nn

unblind_signature(signature, rr, nn) ==
    LET ex == extract_signature(signature)
    IN  IF ~ex.ok THEN ex
        ELSE LET r_inv == mod_inverse(rr, nn)
             IN  IF ~r_inv.some THEN Err("InvalidSignature")
                 ELSE Ok(pack_signature(ex.val.e, ex.val.f,
                                        unblind_x(r_inv.val, ex.val.x, nn)))

----------------------------------------------------------------------------
(* Bounds of the signing session *)

MaxP     == 11   \* largest prime offered to from_primes as p
MaxQ     == 23   \* largest prime offered to from_primes as q
HashOver == 1    \* message hashes range over 0..n+HashOver

KeyPrimesP == {x \in 3..MaxP : IsPrime(x)}
KeyPrimesQ == {x \in 3..MaxQ : IsPrime(x)}

GenIdle == /\ gpc = "idle" /\ bits = 0 /\ target = 0 /\ round = 0
           /\ candidate = 0 /\ steps = 0
           /\ gp = 0 /\ gq = 0 /\ gres = Unset

FunIdle == fpc = "idle" /\ arg = <<>> /\ ret = Unset /\ frame = <<>>

SessIdle == /\ pc = "nokey" /\ p = 0 /\ q = 0 /\ n = 0 /\ m = 0 /\ r = 0
            /\ blinded = 0 /\ bsig = Unset /\ sig = Unset /\ verdict = Unset
            /\ via = "none" /\ flipped = -1

----------------------------------------------------------------------------
(* The signing session: one key, one message, either the plain path        *)
(* sign -> [tamper] -> verify or the blind path                            *)
(* blind_message -> raw_sign -> unblind_signature -> verify.               *)

Init == SessIdle /\ GenIdle /\ FunIdle

\* PrivateKey::from_primes(p, q) and PublicKey::from_n(private.n())
FromPrimes ==
    /\ pc = "nokey"
    /\ \E pp \in KeyPrimesP, qq \in KeyPrimesQ :
          p' = pp /\ q' = qq /\ n' = pp * qq
    /\ pc' = "keyed"
    /\ UNCHANGED <<m, r, blinded, bsig, sig, verdict, via, flipped>>
    /\ UNCHANGED <<genVars, funVars>>

\* PrivateKey::sign on a message whose hash is h
Sign ==
    /\ pc = "keyed"
    /\ \E h \in 0..(n + HashOver) :
          m' = h /\ sig' = sign(h, p, q)
    /\ via' = "sign"
    /\ pc' = "signed"
    /\ UNCHANGED <<p, q, n, r, blinded, bsig, verdict, flipped>>
    /\ UNCHANGED <<genVars, funVars>>

\* signature[0] ^= 1 << b, as in test_invalid_signature
Tamper ==
    /\ pc = "signed" /\ sig.ok
    /\ \E b \in 0..7 :
          /\ sig' = Ok(<<BitXor(sig.val[1], Pow2(b))>> \o Tail(sig.val))
          /\ flipped' = b
    /\ via' = "tamper"
    /\ pc' = "tampered"
    /\ UNCHANGED <<p, q, n, m, r, blinded, bsig, verdict>>
    /\ UNCHANGED <<genVars, funVars>>

\* PublicKey::blind_message on a message whose hash is h; coprime() drew rr
Blind ==
    /\ pc = "keyed"
    /\ \E h \in 0..(n + HashOver), rr \in Coprimes(n) :
          /\ m' = h
          /\ r' = rr
          /\ blinded' = blind_value(h, rr, n)
    /\ pc' = "blinded"
    /\ UNCHANGED <<p, q, n, bsig, sig, verdict, via, flipped>>
    /\ UNCHANGED <<genVars, funVars>>

\* the signer: PrivateKey::raw_sign(blinded_message.to_bytes_be())
SignBlinded ==
    /\ pc = "blinded"
    /\ bsig' = raw_sign(to_bytes_be(blinded), p, q)
    /\ pc' = "blindsigned"
    /\ UNCHANGED <<p, q, n, m, r, blinded, sig, verdict, via, flipped>>
    /\ UNCHANGED <<genVars, funVars>>

\* PublicKey::unblind_signature(blinded_signature, r)
Unblind ==
    /\ pc = "blindsigned" /\ bsig.ok
    /\ sig' = unblind_signature(bsig.val, r, n)
    /\ via' = "blind"
    /\ pc' = "unblinded"
    /\ UNCHANGED <<p, q, n, m, r, blinded, bsig, verdict, flipped>>
    /\ UNCHANGED <<genVars, funVars>>

\* PublicKey::verify(message, signature)
Verify ==
    /\ pc \in {"signed", "tampered", "unblinded"} /\ sig.ok
    /\ verdict' = verify(m, sig.val, n)
    /\ pc' = "verified"
    /\ UNCHANGED <<p, q, n, m, r, blinded, bsig, sig, via, flipped>>
    /\ UNCHANGED <<genVars, funVars>>

Next ==
    \/ FromPrimes
    \/ Sign
    \/ Tamper
    \/ Blind
    \/ SignBlinded
    \/ Unblind
    \/ Verify

Spec == Init /\ [][Next]_vars

\* the key meets the generator's congruences (and is a pair of primes)
ValidKey == p % 8 = 3 /\ q % 8 = 7 /\ IsPrime(p) /\ IsPrime(q) /\ n = p * q

\* the message hash is a unit below the modulus
UnitHash == 0 < m /\ m < n /\ Gcd(m, n) = 1

\* the flags and magnitude carried by the session's signature
SigOf(res) == extract_signature(res.val).val

----------------------------------------------------------------------------
(* C1: sign/verify round trip.  For a key with p = 3 (mod 8), q = 7 (mod 8) *)
(* and a message whose hash is a unit below n, sign returns a signature and *)
(* verify of that message and signature returns Ok(true).                   *)
C1_RoundTrip ==
    (ValidKey /\ UnitHash /\ via = "sign") =>
        /\ pc \in {"signed", "verified"} => sig.ok
        /\ pc = "verified" => verdict.ok /\ verdict.val = TRUE

\* reached: a verified plain signature that needed the doubled, negated form
C1_Witness ==
    /\ pc = "verified" /\ via = "sign" /\ ValidKey /\ UnitHash
    /\ verdict.ok /\ verdict.val = TRUE
    /\ SigOf(sig).e = -1 /\ SigOf(sig).f = 2

(* C2: blind protocol equivalence.  For a valid key, a unit hash and every  *)
(* blinding factor coprime to n, raw_sign of r^2*m mod n succeeds, the      *)
(* unblinding with the same r succeeds, and the unblinded signature         *)
(* verifies (Ok(true)) against the original message.                        *)
C2_BlindEquivalence ==
    (ValidKey /\ UnitHash) =>
        /\ pc = "blindsigned" => bsig.ok
        /\ pc = "unblinded" => sig.ok
        /\ (pc = "verified" /\ via = "blind") => verdict.ok /\ verdict.val = TRUE

\* reached: an unblinded signature verified with a blinding factor r > 1
\* that changed both the value signed and the magnitude
C2_Witness ==
    /\ pc = "verified" /\ via = "blind" /\ ValidKey /\ UnitHash
    /\ r > 1 /\ blinded # m
    /\ SigOf(bsig).x # SigOf(sig).x
    /\ verdict.ok /\ verdict.val = TRUE

\* the blinded values blind_message can hand to the signer for hash h
BlindedValues(h) == {blind_value(h, rr, n) : rr \in Coprimes(n)}

(* C3: blindness.  For a valid key and any two unit hashes m1, m2 the set   *)
(* of blinded values blind_message can produce is the same, so the blinded  *)
(* value says nothing about which message is being signed.                  *)
C3_Blindness ==
    (pc = "blinded" /\ ValidKey /\ UnitHash) =>
        \A m2 \in Coprimes(n) : BlindedValues(m2) = BlindedValues(m)

(* C6: tampering with a transform flag gives false, not an error.  For a    *)
(* signature made by sign for a unit hash under an odd modulus, flipping    *)
(* bit 0 or bit 1 of the flag byte makes verify return Ok(false).           *)
C6_FlagTamperRejected ==
    (pc = "verified" /\ via = "tamper" /\ flipped \in {0, 1}
        /\ UnitHash /\ n % 2 = 1) =>
        verdict.ok /\ verdict.val = FALSE

(* C9: the signature (e, f, x) returned by sign satisfies the documented    *)
(* equation e*f*x^2 = H(m) (mod N), for valid keys and unit hashes, in all  *)
(* four (e, f) cases.                                                       *)
C9_SigningEquation ==
    (pc = "signed" /\ via = "sign" /\ ValidKey /\ UnitHash /\ sig.ok) =>
        LET s  == SigOf(sig)
            fx == (s.f * s.x * s.x) % n
        IN  IF s.e = 1 THEN fx = m ELSE (n - fx) % n = m

(* C16: signing needs no prior reduction of the hash modulo n.  For every   *)
(* key with p = 3 (mod 8), q = 7 (mod 8) and every input integer m of any   *)
(* magnitude coprime to n, m >= n included, raw_sign returns Ok(signature)  *)
(* without an error or a fault.                                             *)
C16_SignAnyMagnitude ==
    (pc = "signed" /\ via = "sign" /\ ValidKey /\ m > 0 /\ Gcd(m, n) = 1) =>
        sig.ok

(* Tampering under keys that keep the PrivateKey congruences: for p = 3     *)
(* (mod 8), q = 7 (mod 8) a flipped flag bit is always answered Ok(false).  *)
C6_FlagTamperRejectedValidKey ==
    (pc = "verified" /\ via = "tamper" /\ flipped \in {0, 1}
        /\ ValidKey /\ UnitHash) =>
        verdict.ok /\ verdict.val = FALSE

----------------------------------------------------------------------------
(* The normalizer called on its own: make_quadratic_residue(a, p, q) for    *)
(* every pair of small odd primes and every a in 0..n+HashOver.             *)

MaxQrPrime == 31

QrPrimes == {x \in 3..MaxQrPrime : IsPrime(x)}

CallMakeQuadraticResidue ==
    /\ fpc = "idle"
    /\ \E pp \in QrPrimes, qq \in QrPrimes :
          \E a \in 0..(pp * qq + HashOver) :
             /\ arg' = [a |-> a, p |-> pp, q |-> qq]
             /\ ret' = make_quadratic_residue(a, pp, qq)
    /\ fpc' = "make_quadratic_residue"
    /\ UNCHANGED <<sessVars, genVars, frame>>

NextQR == CallMakeQuadraticResidue

SpecQR == Init /\ [][NextQR]_vars

\* the candidates of the call that pass is_quadratic_residue for p and for q
Passing(a, pp, qq) ==
    {i \in 1..4 : qr_passes(qr_candidates(a, pp * qq)[i], pp, qq)}

QrValidPrimes == arg.p % 8 = 3 /\ arg.q % 8 = 7

(* C5: the normalizer is exhaustive.  For primes p = 3, q = 7 (mod 8) and   *)
(* every a with 0 <= a < n exactly one of the four candidates passes for    *)
(* both primes, and make_quadratic_residue returns (no panic).              *)
C5_ExactlyOneCandidate ==
    (fpc = "make_quadratic_residue" /\ QrValidPrimes
        /\ 0 <= arg.a /\ arg.a < arg.p * arg.q) =>
        /\ Cardinality(Passing(arg.a, arg.p, arg.q)) = 1
        /\ ret.ok

(* C5 as amended: the same for every a with 0 < a < n and gcd(a, n) = 1.    *)
C5_ExactlyOneCandidateCoprime ==
    (fpc = "make_quadratic_residue" /\ QrValidPrimes
        /\ 0 < arg.a /\ arg.a < arg.p * arg.q
        /\ Gcd(arg.a, arg.p * arg.q) = 1) =>
        /\ Cardinality(Passing(arg.a, arg.p, arg.q)) = 1
        /\ ret.ok

\* reached: a unit whose only passing candidate is the fourth, 2(n - a)
C5_Witness ==
    /\ fpc = "make_quadratic_residue" /\ QrValidPrimes
    /\ 0 < arg.a /\ arg.a < arg.p * arg.q
    /\ Gcd(arg.a, arg.p * arg.q) = 1
    /\ Passing(arg.a, arg.p, arg.q) = {4}
    /\ ret.ok /\ ret.val.e = -1 /\ ret.val.f = 2

\* the four transforms of a in the documented order, with their tags
Transforms(a, nn) ==
    << <<a, 1, 1>>, <<nn - a, -1, 1>>,
       <<(2 * a) % nn, 1, 2>>, <<(2 * (nn - a)) % nn, -1, 2>> >>

\* v is a residue modulo both primes (Euler's criterion)
JointResidue(v, pp, qq) ==
    /\ ModPow(v, (pp - 1) \div 2, pp) = 1
    /\ ModPow(v, (qq - 1) \div 2, qq) = 1

(* C17: whenever make_quadratic_residue(a, p, q) returns (v, (e, f)) for    *)
(* 0 <= a < n, v is the first of a, n - a, 2a mod n, 2(n - a) mod n that is *)
(* a residue modulo both primes, v < n, and the tag names the transform:    *)
(* v = e*f*a (mod n), e = -1 for the negated and f = 2 for the doubled.     *)
C17_FirstCandidateTagged ==
    (fpc = "make_quadratic_residue" /\ arg.a < arg.p * arg.q /\ ret.ok) =>
        LET nn == arg.p * arg.q
            ts == Transforms(arg.a, nn)
            v  == ret.val.cand
            e  == ret.val.e
            f  == ret.val.f
        IN  /\ \E i \in 1..4 :
                  /\ ts[i] = <<v, e, f>>
                  /\ JointResidue(ts[i][1], arg.p, arg.q)
                  /\ \A j \in 1..(i - 1) : ~JointResidue(ts[j][1], arg.p, arg.q)
            /\ v < nn
            /\ e \in {1, -1} /\ f \in {1, 2}
            /\ v % nn = (e * f * arg.a) % nn

\* reached: the doubled form 2a returned, a and n - a both having failed
C17_Witness ==
    /\ fpc = "make_quadratic_residue" /\ arg.a < arg.p * arg.q /\ ret.ok
    /\ ret.val.e = 1 /\ ret.val.f = 2
    /\ ret.val.cand = (2 * arg.a) % (arg.p * arg.q)
    /\ ret.val.cand < arg.a
    /\ ~JointResidue(arg.a, arg.p, arg.q)

----------------------------------------------------------------------------
(* The wire format called on its own: extract_signature on byte strings     *)
(* received from outside, and on the output of pack_signature.              *)

MaxTail  == 2     \* bytes after the flag byte of a received string
MaxPackX == 300   \* magnitudes 0..MaxPackX are packed, and a few wider ones

TailBytes == {0, 1, 128, 255}

RECURSIVE Tails(_)
Tails(k) ==
    IF k = 0 THEN {<<>>}
    ELSE Tails(k - 1) \cup
         {Append(t, b) : t \in {u \in Tails(k - 1) : Len(u) = k - 1}, b \in TailBytes}

WireStrings == {<<>>} \cup {<<b0>> \o t : b0 \in 0..255, t \in Tails(MaxTail)}

PackValues == (0..MaxPackX) \cup {Pow2(16) - 1, Pow2(16), Pow2(16) + 1, Pow2(24) + 255}

\* a signature arrives as bytes
Receive ==
    /\ fpc = "idle"
    /\ \E s \in WireStrings : arg' = s
    /\ ret' = ret
    /\ fpc' = "received"
    /\ UNCHANGED <<sessVars, genVars, frame>>

\* PublicKey::extract_signature on the received bytes
Extract ==
    /\ fpc = "received"
    /\ ret' = extract_signature(arg)
    /\ arg' = arg
    /\ fpc' = "extracted"
    /\ UNCHANGED <<sessVars, genVars, frame>>

\* PrivateKey::pack_signature(e, f, x)
Pack ==
    /\ fpc = "idle"
    /\ \E e \in {1, -1}, f \in {1, 2}, x \in PackValues :
          /\ arg' = [e |-> e, f |-> f, x |-> x]
          /\ ret' = Ok(pack_signature(e, f, x))
    /\ fpc' = "packed"
    /\ UNCHANGED <<sessVars, genVars, frame>>

\* PublicKey::extract_signature on the packed bytes
ExtractPacked ==
    /\ fpc = "packed"
    /\ ret' = extract_signature(ret.val)
    /\ arg' = arg
    /\ fpc' = "unpacked"
    /\ UNCHANGED <<sessVars, genVars, frame>>

NextCodec == Receive \/ Extract \/ Pack \/ ExtractPacked

SpecCodec == Init /\ [][NextCodec]_vars

\* the value of a byte string read as a big-endian number, last byte first
RECURSIVE BigEndianValue(_)
BigEndianValue(s) ==
    IF s = <<>> THEN 0
    ELSE s[Len(s)] + 256 * BigEndianValue(SubSeq(s, 1, Len(s) - 1))

\* bit k of byte b
BitOf(b, k) == (b \div Pow2(k)) % 2

\* the byte string is malformed: under 2 bytes, or a reserved flag bit set
Malformed(s) == Len(s) < 2 \/ \E k \in 2..7 : BitOf(s[1], k) = 1

(* C7: extract_signature returns InvalidSignature exactly when the string   *)
(* has fewer than 2 bytes or its first byte has one of bits 2..7 set; else  *)
(* it returns Ok((e, f, x)) with e = -1 iff bit 0 is set, f = 2 iff bit 1   *)
(* is set, and x the big-endian value of the remaining bytes.               *)
C7_ExtractExact ==
    fpc = "extracted" =>
        IF Malformed(arg)
        THEN ~ret.ok /\ ret.err = "InvalidSignature"
        ELSE /\ ret.ok
             /\ ret.val.e \in {1, -1} /\ (ret.val.e = -1 <=> BitOf(arg[1], 0) = 1)
             /\ ret.val.f \in {1, 2} /\ (ret.val.f = 2 <=> BitOf(arg[1], 1) = 1)
             /\ ret.val.x = BigEndianValue(Tail(arg))

\* reached: a well-formed string with both flags set and a two-byte
\* magnitude, decoded
C7_Witness ==
    /\ fpc = "extracted"
    /\ arg = <<3, 1, 255>> /\ ret.ok
    /\ ret.val.x = 511 /\ ret.val.e = -1 /\ ret.val.f = 2

(* C8: pack_signature and extract_signature are inverse: for e in {1, -1},  *)
(* f in {1, 2} and every x >= 0 (x = 0 included),                           *)
(* extract_signature(pack_signature(e, f, x)) = Ok((e, f, x)).              *)
C8_PackExtractInverse ==
    fpc = "unpacked" =>
        /\ ret.ok
        /\ ret.val.e = arg.e /\ ret.val.f = arg.f /\ ret.val.x = arg.x

\* reached: the zero magnitude, packed and extracted again
C8_Witness ==
    /\ fpc = "unpacked" /\ arg.x = 0 /\ arg.e = -1 /\ arg.f = 2
    /\ ret.ok /\ ret.val.x = 0

----------------------------------------------------------------------------
(* chinese_remainder_theorem called on its own, on every pair of lists of   *)
(* at most MaxLen entries: remainders in 0..MaxRem, moduli in 0..MaxMod.    *)

MaxLen == 3
MaxRem == 2
MaxMod == 5

RECURSIVE ListsUpTo(_, _)
ListsUpTo(S, k) ==
    IF k = 0 THEN {<<>>}
    ELSE ListsUpTo(S, k - 1) \cup
         {Append(t, x) : t \in {u \in ListsUpTo(S, k - 1) : Len(u) = k - 1}, x \in S}

\* the example of test_chinese_remainder_theorem
CrtExample == [remainders |-> <<2, 3, 2>>, moduli |-> <<3, 5, 7>>]

\* chinese_remainder_theorem(remainders, moduli) on the lists rs, ms
CrtCall(rs, ms) ==
    /\ arg' = [remainders |-> rs, moduli |-> ms]
    /\ ret' = chinese_remainder_theorem(rs, ms)

CallCrt ==
    /\ fpc = "idle"
    /\ \/ \E rs \in ListsUpTo(0..MaxRem, MaxLen), ms \in ListsUpTo(0..MaxMod, MaxLen) :
             CrtCall(rs, ms)
       \/ CrtCall(CrtExample.remainders, CrtExample.moduli)
    /\ fpc' = "chinese_remainder_theorem"
    /\ UNCHANGED <<sessVars, genVars, frame>>

NextCRT == CallCrt

SpecCRT == Init /\ [][NextCRT]_vars

PairwiseCoprime(ms) ==
    \A i, j \in 1..Len(ms) : i < j => Gcd(ms[i], ms[j]) = 1

(* C10: chinese_remainder_theorem is correct.  For a non-empty list of      *)
(* pairwise-coprime moduli, each >= 1, and an equally long list of          *)
(* residues (any size, also r_i >= m_i), the result is Ok(x) with           *)
(* 0 <= x < prod m_i and x = r_i (mod m_i) for every i.                     *)
C10_CrtCorrect ==
    (/\ fpc = "chinese_remainder_theorem"
     /\ Len(arg.moduli) >= 1 /\ Len(arg.remainders) = Len(arg.moduli)
     /\ \A i \in 1..Len(arg.moduli) : arg.moduli[i] >= 1
     /\ PairwiseCoprime(arg.moduli)) =>
        /\ ret.ok
        /\ 0 <= ret.val /\ ret.val < Product(arg.moduli)
        /\ \A i \in 1..Len(arg.moduli) :
              ret.val % arg.moduli[i] = arg.remainders[i] % arg.moduli[i]

\* reached: the documented example, three moduli combined into 23
C10_Witness ==
    /\ fpc = "chinese_remainder_theorem"
    /\ arg.moduli = <<3, 5, 7>> /\ arg.remainders = <<2, 3, 2>>
    /\ ret.ok /\ ret.val = 23

\* the input is one the function has to refuse: lengths differ, no entry,
\* or two moduli share a factor
BadCrtInput(rs, ms) ==
    Len(rs) # Len(ms) \/ Len(rs) = 0 \/ ~PairwiseCoprime(ms)

(* C11: chinese_remainder_theorem reports every bad input as a returned     *)
(* ComputationError and never panics: on lists of non-negative integers     *)
(* (moduli may be 0) it returns Err(ComputationError) whenever the lengths  *)
(* differ, the lists are empty or the moduli are not pairwise coprime.      *)
C11_CrtErrorsReturned ==
    fpc = "chinese_remainder_theorem" =>
        /\ ret.err # "panic"
        /\ BadCrtInput(arg.remainders, arg.moduli) =>
              (~ret.ok /\ ret.err = "ComputationError")

----------------------------------------------------------------------------
(* mod_inverse called on its own, on every a in 0..MaxInvA and every        *)
(* modulus in 0..MaxInvM.                                                   *)

MaxInvA == 40
MaxInvM == 30

CallModInverse ==
    /\ fpc = "idle"
    /\ \E a \in 0..MaxInvA, md \in 0..MaxInvM :
          /\ arg' = [a |-> a, m |-> md]
          /\ ret' = mod_inverse(a, md)
    /\ fpc' = "mod_inverse"
    /\ UNCHANGED <<sessVars, genVars, frame>>

NextInv == CallModInverse

SpecInv == Init /\ [][NextInv]_vars

(* C12: mod_inverse(a, m) returns None exactly when m = 0 or                *)
(* gcd(a, m) # 1; otherwise it returns Some(x) with 0 <= x < m and          *)
(* a*x = 1 (mod m), for all a >= 0 and m >= 0, also a >= m, a = 0, m = 1.   *)
C12_ModInverseExact ==
    fpc = "mod_inverse" =>
        IF arg.m = 0 \/ Gcd(arg.a, arg.m) # 1
        THEN ~ret.some
        ELSE /\ ret.some
             /\ 0 <= ret.val /\ ret.val < arg.m
             /\ (arg.a * ret.val) % arg.m = 1 % arg.m

----------------------------------------------------------------------------
(* mod_sqrt called on its own, one step per loop iteration.  The locals of  *)
(* the call live in frame: q, s (p - 1 = q * 2^s), z, c, r, t, m.           *)
(*                                                                          *)
(* z is kept reduced modulo p.  The program reads z only through            *)
(* is_quadratic_residue(z, p) and z.modpow(q, p), which both reduce it, so  *)
(* the search behaves the same; for an odd prime it ends below p and the    *)
(* value is the program's own.  A search that never ends is a cycle here.   *)

MaxSqrtPrime == 100   \* moduli: 0, 1 and the primes up to MaxSqrtPrime
MaxSqrtA     == 120   \* a ranges over 0..MaxSqrtA

SqrtModuli == {0, 1} \cup {x \in 2..MaxSqrtPrime : IsPrime(x)}

\* mutant: the exponent of b taken one doubling too high
ts_b_exponent_high(mm, i) == Pow2(mm - i)

\* BigUint::from(2u32).pow(m - i - 1)
ts_b_exponent(mm, i) == Pow2(mm - i - 1)

\* `while !temp.is_one() && i < m`: the i it ends with
RECURSIVE ts_order(_, _, _, _)
ts_order(temp, i, mm, pr) ==
    IF temp # 1 /\ i < mm THEN ts_order((temp * temp) % pr, i + 1, mm, pr)
    ELSE i

\* mod_sqrt up to its first loop: the residue test, the modulus test and
\* the closed form for p = 3 (mod 4)
SqrtEnter ==
    /\ fpc = "idle"
    /\ \E a \in 0..MaxSqrtA, pr \in SqrtModuli :
          /\ arg' = [a |-> a, p |-> pr]
          /\ IF ~is_quadratic_residue(a, pr)
             THEN /\ ret' = Err("SquareRootModPrimeFailed")
                  /\ fpc' = "mod_sqrt_done" /\ frame' = frame
             ELSE IF pr = 0 \/ pr = 1
             THEN /\ ret' = Err("InvalidPrime")
                  /\ fpc' = "mod_sqrt_done" /\ frame' = frame
             ELSE IF pr % 4 = 3
             THEN /\ ret' = Ok(ModPow(a, (pr + 1) \div 4, pr))
                  /\ fpc' = "mod_sqrt_done" /\ frame' = frame
             ELSE /\ ret' = ret
                  /\ fpc' = "mod_sqrt_factor"
                  /\ frame' = [q |-> pr - 1, s |-> 0, z |-> 0,
                               c |-> 0, r |-> 0, t |-> 0, m |-> 0]
    /\ UNCHANGED <<sessVars, genVars>>

\* one iteration of `while (&q % 2u32).is_zero()`
SqrtFactorStep ==
    /\ fpc = "mod_sqrt_factor"
    /\ frame.q % 2 = 0
    /\ frame' = [frame EXCEPT !.s = @ + 1, !.q = @ \div 2]
    /\ UNCHANGED <<fpc, arg, ret, sessVars, genVars>>

\* the factoring loop is left: `if s == 1` returns, otherwise z starts at 2
SqrtFactorDone ==
    /\ fpc = "mod_sqrt_factor"
    /\ frame.q % 2 # 0
    /\ IF frame.s = 1
       THEN /\ ret' = Ok(ModPow(arg.a, (arg.p + 1) \div 4, arg.p))
            /\ fpc' = "mod_sqrt_done" /\ frame' = frame
       ELSE /\ ret' = ret
            /\ fpc' = "mod_sqrt_find_z"
            /\ frame' = [frame EXCEPT !.z = 2 % arg.p]
    /\ UNCHANGED <<arg, sessVars, genVars>>

\* one iteration of `while is_quadratic_residue(&z, p)`: z += 1
SqrtNextZ ==
    /\ fpc = "mod_sqrt_find_z"
    /\ is_quadratic_residue(frame.z, arg.p)
    /\ frame' = [frame EXCEPT !.z = (@ + 1) % arg.p]
    /\ UNCHANGED <<fpc, arg, ret, sessVars, genVars>>

\* a non-residue z is found: c, r, t, m are set up
SqrtFoundZ ==
    /\ fpc = "mod_sqrt_find_z"
    /\ ~is_quadratic_residue(frame.z, arg.p)
    /\ frame' = [frame EXCEPT
                    !.c = ModPow(frame.z, frame.q, arg.p),
                    !.r = ModPow(arg.a, (frame.q + 1) \div 2, arg.p),
                    !.t = ModPow(arg.a, frame.q, arg.p),
                    !.m = frame.s]
    /\ fpc' = "mod_sqrt_loop"
    /\ UNCHANGED <<arg, ret, sessVars, genVars>>

\* one iteration of the Tonelli-Shanks `loop`
SqrtLoop ==
    /\ fpc = "mod_sqrt_loop"
    /\ IF frame.t = 1
       THEN /\ ret' = Ok(frame.r)
            /\ fpc' = "mod_sqrt_done" /\ frame' = frame
       ELSE LET i == ts_order(frame.t, 0, frame.m, arg.p)
            IN  IF i = frame.m
                THEN /\ ret' = Err("SquareRootModPrimeFailed")
                     /\ fpc' = "mod_sqrt_done" /\ frame' = frame
                ELSE LET b  == ModPow(frame.c, ts_b_exponent(frame.m, i), arg.p)
                         c2 == (b * b) % arg.p
                     IN  /\ frame' = [frame EXCEPT
                                         !.r = (frame.r * b) % arg.p,
                                         !.c = c2,
                                         !.t = (frame.t * c2) % arg.p,
                                         !.m = i]
                         /\ ret' = ret /\ fpc' = fpc
    /\ UNCHANGED <<arg, sessVars, genVars>>

NextSqrt ==
    \/ SqrtEnter
    \/ SqrtFactorStep
    \/ SqrtFactorDone
    \/ SqrtNextZ
    \/ SqrtFoundZ
    \/ SqrtLoop

SpecSqrt == Init /\ [][NextSqrt]_vars

\* a call that has started keeps running: the code is sequential
SpecSqrtLive == SpecSqrt /\ WF_vars(NextSqrt)

(* C13: mod_sqrt is correct.  For every odd prime p, = 3 (mod 4) or = 1     *)
(* (mod 4), and every a with is_quadratic_residue(a, p), mod_sqrt returns   *)
(* Ok(r) with r^2 mod p = a mod p, never an error.                          *)
C13_ModSqrtCorrect ==
    (/\ fpc = "mod_sqrt_done"
     /\ arg.p > 2 /\ IsPrime(arg.p)
     /\ is_quadratic_residue(arg.a, arg.p)) =>
        /\ ret.ok
        /\ (ret.val * ret.val) % arg.p = arg.a % arg.p

\* reached: a root modulo a prime = 1 (mod 4) of an a above p, returned
\* after the Tonelli-Shanks loop had to adjust r at least twice
C13_Witness ==
    /\ fpc = "mod_sqrt_done" /\ frame # <<>>
    /\ arg.p % 4 = 1 /\ arg.a > arg.p
    /\ frame.s >= 4 /\ frame.m > 0 /\ frame.m < frame.s - 1
    /\ ret.ok /\ (ret.val * ret.val) % arg.p = arg.a % arg.p

(* C14: mod_sqrt's error kinds.  mod_sqrt(a, p) fails with                  *)
(* SquareRootModPrimeFailed if a is not a residue modulo p, and with        *)
(* InvalidPrime if p <= 1, for every a.                                     *)
C14_ModSqrtErrorKinds ==
    fpc = "mod_sqrt_done" =>
        /\ arg.p <= 1 => (~ret.ok /\ ret.err = "InvalidPrime")
        /\ (arg.p > 1 /\ ~is_quadratic_residue(arg.a, arg.p)) =>
              (~ret.ok /\ ret.err = "SquareRootModPrimeFailed")

(* C20: mod_sqrt always terminates.  For every a >= 0 and every p that is   *)
(* prime (2 included) or 0 or 1, the call returns after finitely many       *)
(* steps: the factoring loop, the search for z and the main loop all exit.  *)
C20_ModSqrtTerminates == <>(fpc = "mod_sqrt_done")

----------------------------------------------------------------------------
(* Key generation: generate_with_hash and the two runs of                   *)
(* generate_prime_congruent, one step per iteration of `for _ in 0..1000`   *)
(* (a random draw and the forward scan from it).                            *)
(*                                                                          *)
(* The program's floor on the key size is 1024 bits; primes of 512 bits are *)
(* beyond explicit enumeration, so the model keeps the code's comparison    *)
(* and scales the floor down to KeySizeFloor bits.  The number of rounds is *)
(* the program's.                                                           *)

KeySizeFloor == 10   \* stands for the 1024 of `if bits < 1024`
MaxKeyBits   == 13   \* largest key size requested
MaxRounds    == 1000

KeyBits == (KeySizeFloor - 2)..MaxKeyBits

\* mutant: the floor itself refused as well
key_size_rejected_inclusive(b) == b <= KeySizeFloor

\* `if bits < 1024`
key_size_rejected(b) == b < KeySizeFloor

\* mutant: the upper end of the range taken one bit too wide
ScanMaxWide(b) == Pow2(b + 1) - 1

\* mutant: the upper end taken as 2^bits, without the `- 1`
ScanMaxOneOver(b) == Pow2(b)

\* mutant: the lower end taken one bit too low
ScanMinLow(b) == Pow2(b - 2)

ScanMin(b) == Pow2(b - 1)
ScanMax(b) == Pow2(b) - 1

half_bits == bits \div 2

\* the primality test of the scan: Primality::Yes or probably()
PassesOracle(c) == IsPrime(c)

\* the `while candidate <= max` loop from candidate c after k increments:
\* where it stops, whether by returning the candidate or by running past max
RECURSIVE Scan(_, _, _, _, _)
Scan(c, max, remainder, modulus, k) ==
    IF c > max THEN [found |-> FALSE, cand |-> c, steps |-> k]
    ELSE IF c % modulus = remainder /\ PassesOracle(c)
         THEN [found |-> TRUE, cand |-> c, steps |-> k]
         ELSE Scan(c + 1, max, remainder, modulus, k + 1)

\* the scans of every draw, per bit length and remainder (3 for p, 7 for q),
\* tabulated once: the scan reads nothing but its arguments
ScanTable ==
    [b \in (KeySizeFloor \div 2)..(MaxKeyBits \div 2) |->
        [t \in {3, 7} |->
            [num \in ScanMin(b)..(ScanMax(b) - 1) |-> Scan(num, ScanMax(b), t, 8, 0)]]]

\* the scan of one round that drew num, for the prime now searched
RoundScan(num) == ScanTable[half_bits][target][num]

\* gen_biguint_range(&min, &max): min <= num < max
Draws == ScanMin(half_bits)..(ScanMax(half_bits) - 1)

\* generate_with_hash: `if bits < 1024 { return Err(InvalidKeySize) }`
GenerateTooSmall ==
    /\ gpc = "idle"
    /\ \E b \in KeyBits : key_size_rejected(b) /\ bits' = b
    /\ gres' = Err("InvalidKeySize")
    /\ gpc' = "done"
    /\ UNCHANGED <<target, round, candidate, steps, gp, gq>>
    /\ UNCHANGED <<sessVars, funVars>>

\* generate_with_hash enters generate_prime_congruent(half_bits, 3, 8)
GenerateStart ==
    /\ gpc = "idle"
    /\ \E b \in KeyBits : ~key_size_rejected(b) /\ bits' = b
    /\ target' = 3 /\ round' = 0
    /\ gpc' = "loop"
    /\ UNCHANGED <<candidate, steps, gp, gq, gres>>
    /\ UNCHANGED <<sessVars, funVars>>

\* a round whose scan runs past max: on to the next iteration
RoundMissed ==
    /\ gpc = "loop" /\ round < MaxRounds
    /\ \E num \in Draws :
          LET sc == RoundScan(num)
          IN  /\ ~sc.found
              /\ candidate' = sc.cand
              /\ steps' = sc.steps
    /\ round' = round + 1
    /\ UNCHANGED <<gpc, bits, target, gp, gq, gres>>
    /\ UNCHANGED <<sessVars, funVars>>

\* a round of the search for p returns Ok(candidate); the search for q starts
FoundP ==
    /\ gpc = "loop" /\ round < MaxRounds /\ target = 3
    /\ \E num \in Draws :
          LET sc == RoundScan(num)
          IN  /\ sc.found
              /\ candidate' = sc.cand
              /\ steps' = sc.steps
              /\ gp' = sc.cand
    /\ target' = 7 /\ round' = 0
    /\ UNCHANGED <<gpc, bits, gq, gres>>
    /\ UNCHANGED <<sessVars, funVars>>

\* a round of the search for q returns Ok(candidate); the key pair is built
FoundQ ==
    /\ gpc = "loop" /\ round < MaxRounds /\ target = 7
    /\ \E num \in Draws :
          LET sc == RoundScan(num)
          IN  /\ sc.found
              /\ candidate' = sc.cand
              /\ steps' = sc.steps
              /\ gq' = sc.cand
              /\ gres' = Ok([p |-> gp, q |-> sc.cand, n |-> gp * sc.cand])
    /\ round' = round + 1
    /\ gpc' = "done"
    /\ UNCHANGED <<bits, target, gp>>
    /\ UNCHANGED <<sessVars, funVars>>

\* all rounds used: Err(InvalidPrime), passed on by `?`
Exhausted ==
    /\ gpc = "loop" /\ round = MaxRounds
    /\ gres' = Err("InvalidPrime")
    /\ gpc' = "done"
    /\ UNCHANGED <<bits, target, round, candidate, steps, gp, gq>>
    /\ UNCHANGED <<sessVars, funVars>>

NextGen ==
    \/ GenerateTooSmall
    \/ GenerateStart
    \/ RoundMissed
    \/ FoundP
    \/ FoundQ
    \/ Exhausted

SpecGen == Init /\ [][NextGen]_vars

\* number of significant bits
RECURSIVE BitLen(_)
BitLen(x) == IF x = 0 THEN 0 ELSE 1 + BitLen(x \div 2)

(* C4: every key pair returned by generate has p = 3 (mod 8),               *)
(* q = 7 (mod 8), p # q, both accepted by the primality oracle, n = p*q,    *)
(* and p and q of exactly floor(bits/2) significant bits, so that n has     *)
(* 2*floor(bits/2) bits or one less.                                        *)
C4_GeneratedKeyShape ==
    (gpc = "done" /\ gres.ok) =>
        LET k == gres.val
            h == bits \div 2
        IN  /\ k.p % 8 = 3 /\ k.q % 8 = 7 /\ k.p # k.q
            /\ PassesOracle(k.p) /\ PassesOracle(k.q)
            /\ k.n = k.p * k.q
            /\ BitLen(k.p) = h /\ BitLen(k.q) = h
            /\ BitLen(k.n) \in {2 * h, 2 * h - 1}

\* reached: a key pair returned after the search for q had to restart, with
\* a modulus one bit short of the size asked for
C4_Witness ==
    /\ gpc = "done" /\ gres.ok
    /\ round > 1
    /\ BitLen(gres.val.n) = 2 * (bits \div 2) - 1

(* C15: the key-size floor.  generate_with_hash returns Err(InvalidKeySize)  *)
(* for every bits below the floor, before any prime search or random draw,  *)
(* and never returns InvalidKeySize for bits at or above the floor.         *)
C15_KeySizeFloor ==
    /\ (gpc = "done" /\ bits < KeySizeFloor) =>
          /\ ~gres.ok /\ gres.err = "InvalidKeySize"
          /\ target = 0 /\ round = 0 /\ candidate = 0 /\ steps = 0
          /\ gp = 0 /\ gq = 0
    /\ (gpc # "idle" /\ bits >= KeySizeFloor) => gres.err # "InvalidKeySize"

\* reached: the largest size below the floor, refused with nothing searched
C15_Witness ==
    /\ gpc = "done" /\ bits = KeySizeFloor - 1
    /\ gres.err = "InvalidKeySize" /\ round = 0 /\ gp = 0

\* the draw the last round started from: the scan only ever adds 1
LastDraw == candidate - steps

(* C18: in every round of the prime search the forward scan from the drawn  *)
(* candidate takes at most `bits` increment steps (bits being the argument  *)
(* of generate_prime_congruent) before the round is abandoned.              *)
C18_ScanWithinBitBudget ==
    candidate # 0 => steps <= half_bits

(* C18 as amended: the scan of a round is bounded by the range of numbers   *)
(* of the target bit length: from the draw num in [2^(bits-1), 2^bits - 1)  *)
(* it takes at most 2^bits - num <= 2^(bits-1) steps, and the round is      *)
(* abandoned only when the candidate has passed 2^bits - 1.                 *)
C18_ScanWithinRange ==
    candidate # 0 =>
        LET lo == Pow2(half_bits - 1)
            hi == Pow2(half_bits) - 1
        IN  /\ lo <= LastDraw /\ LastDraw < hi
            /\ steps <= hi - LastDraw + 1
            /\ steps <= lo
            /\ candidate <= hi + 1
            /\ (gpc = "loop" /\ round > 0) => candidate = hi + 1

\* reached: a round abandoned after more steps than the key has bits
C18_Witness ==
    /\ gpc = "loop" /\ round > 0
    /\ steps > bits
    /\ candidate = Pow2(half_bits)

\* c meets the congruence of the search for remainder rem and is prime
Qualifies(c, rem) == c % 8 = rem /\ IsPrime(c)

\* prime is what a search for remainder rem returned, in the state right
\* after its last round: the first qualifying integer scanned, in range
ReturnedFirst(prime, rem) ==
    /\ prime = candidate
    /\ Qualifies(prime, rem)
    /\ \A c \in LastDraw..(prime - 1) : ~Qualifies(c, rem)
    /\ Pow2(half_bits - 1) <= prime /\ prime <= Pow2(half_bits) - 1

\* how far generate_with_hash has come: not called, rounds of the search
\* for p, rounds of the search for q, returned
SearchRank ==
    IF gpc = "done" THEN 2 * MaxRounds + 3
    ELSE IF gpc = "idle" THEN 0
    ELSE IF target = 3 THEN 1 + round
    ELSE MaxRounds + 2 + round

SearchRankTop == 2 * MaxRounds + 3

\* what holds of the prime search in every state
SearchOutcome ==
    /\ round <= MaxRounds
    /\ (gpc = "loop" /\ target = 7 /\ round = 0) => ReturnedFirst(gp, 3)
    /\ (gpc = "done" /\ gres.ok) => ReturnedFirst(gq, 7)
    /\ gp # 0 => (Pow2(half_bits - 1) <= gp /\ gp <= Pow2(half_bits) - 1)
    /\ (gres.err = "InvalidPrime") <=>
          (gpc = "done" /\ round = MaxRounds /\ candidate > Pow2(half_bits) - 1)

(* C19: the prime search always ends with a definite outcome.               *)
(* generate_prime_congruent returns Ok(candidate) at the first scanned      *)
(* integer that meets the congruence and passes the primality oracle, runs  *)
(* at most 1000 rounds, returns Err(InvalidPrime) exactly when all 1000     *)
(* rounds end without such a candidate, and every returned candidate lies   *)
(* in [2^(bits-1), 2^bits - 1].                                             *)
(* Termination is stated by a rank: every step of the search raises it, it  *)
(* never exceeds SearchRankTop, and a search that has not returned can      *)
(* always take a step.                                                      *)
C19_SearchTerminates ==
    /\ [](SearchOutcome /\ SearchRank <= SearchRankTop
            /\ (gpc = "done" \/ ENABLED NextGen))
    /\ [][SearchRank' > SearchRank]_vars

\* reached: p found, then all 1000 rounds of the search for q used up
C19_Witness ==
    /\ gpc = "done" /\ gres.err = "InvalidPrime"
    /\ gp # 0 /\ gq = 0 /\ target = 7 /\ round = MaxRounds

=============================================================================
